---- MODULE Spec2Model ----
(***************************************************************************)
(* A model of saleor_gql_loader: the error extractor handle_errors of      *)
(* utils.py and the request/response methods of ETLDataLoader              *)
(* (data_loader.py), with the remote GraphQL server as the environment.    *)
(***************************************************************************)
EXTENDS Integers, Sequences, FiniteSets, TLC

(***************************************************************************)
(* Python / JSON values.  A deserialized body is a tree of dicts, lists,   *)
(* strings, numbers, booleans and None; every value carries its type tag   *)
(* so that truthiness and membership can be computed as Python does.       *)
(***************************************************************************)
None == [t |-> "None"]
Str(s) == [t |-> "str", v |-> s]
Num(n) == [t |-> "int", v |-> n]
Bool(b) == [t |-> "bool", v |-> b]
List(s) == [t |-> "list", v |-> s]
Dict(f) == [t |-> "dict", v |-> f]

EmptyDict == Dict(<<>>)

\* bool(x): None, empty containers, "", 0 and False are falsy.
Truthy(x) ==
    CASE x.t = "None" -> FALSE
      [] x.t = "str"  -> x.v # ""
      [] x.t = "int"  -> x.v # 0
      [] x.t = "bool" -> x.v
      [] x.t = "list" -> Len(x.v) > 0
      [] x.t = "dict" -> DOMAIN x.v # {}

\* key in x.  On a dict: key membership.  On a list: element membership.
\* On a str: substring test; the strings of this model either equal the
\* probe or do not contain it.
PyIn(key, x) ==
    CASE x.t = "dict" -> key \in DOMAIN x.v
      [] x.t = "list" -> \E i \in 1..Len(x.v) : x.v[i] = Str(key)
      [] x.t = "str"  -> x.v = key
      [] OTHER        -> FALSE

RECURSIVE SeqOfSet(_)
SeqOfSet(S) ==
    IF S = {} THEN <<>>
    ELSE LET x == CHOOSE y \in S : TRUE IN <<x>> \o SeqOfSet(S \ {x})

\* for error in x: a list yields its elements, a dict yields its keys.
Iterate(x) ==
    CASE x.t = "list" -> x.v
      [] x.t = "dict" -> [i \in 1..Cardinality(DOMAIN x.v) |->
                            Str(SeqOfSet(DOMAIN x.v)[i])]
      [] OTHER        -> <<>>

\* sep.join(lines)
RECURSIVE Join(_, _)
Join(lines, sep) ==
    IF Len(lines) = 0 THEN ""
    ELSE IF Len(lines) = 1 THEN lines[1]
    ELSE lines[1] \o sep \o Join(Tail(lines), sep)

\* repr(x): strings in single quotes, containers with their items' reprs.
RECURSIVE PyRepr(_)
PyRepr(x) ==
    CASE x.t = "None" -> "None"
      [] x.t = "str"  -> "'" \o x.v \o "'"
      [] x.t = "int"  -> ToString(x.v)
      [] x.t = "bool" -> IF x.v THEN "True" ELSE "False"
      [] x.t = "list" ->
            "[" \o Join([i \in 1..Len(x.v) |-> PyRepr(x.v[i])], ", ") \o "]"
      [] x.t = "dict" ->
            LET keys == SeqOfSet(DOMAIN x.v) IN
            "{" \o Join([i \in 1..Len(keys) |->
                          "'" \o keys[i] \o "': " \o PyRepr(x.v[keys[i]])],
                        ", ") \o "}"

\* str(x) as used by str.format on a field value: a string as it is, any
\* other value as its repr.
PyStr(x) == IF x.t = "str" THEN x.v ELSE PyRepr(x)

(***************************************************************************)
(* Outcomes of a call: a normal return or a raised exception.              *)
(***************************************************************************)
Returned(val) == [kind |-> "return", exc |-> "", text |-> "", value |-> val]
Raised(cls, txt) == [kind |-> "raise", exc |-> cls, text |-> txt, value |-> None]

(***************************************************************************)
(* utils.override_dict: every item of overrides is assigned into a, which  *)
(* is changed in place; a warning is printed for a key under which a held  *)
(* a dict.  The outcome is a afterwards and the keys warned about.         *)
(***************************************************************************)

\* d with d[key] = val assigned.
With(d, key, val) ==
    Dict([k \in DOMAIN d.v \cup {key} |-> IF k = key THEN val ELSE d.v[k]])

ContainedDict_AnyValue(a, key) == key \in DOMAIN a.v

\* try: type(a[key]) == dict / except KeyError: pass
ContainedDict(a, key) == key \in DOMAIN a.v /\ a.v[key].t = "dict"

\* for key, val in overrides.items(): ... a[key] = val
RECURSIVE OverrideItems(_, _, _, _)
OverrideItems(a, warnings, keys, overrides) ==
    IF Len(keys) = 0 THEN [a |-> a, warnings |-> warnings]
    ELSE LET key == Head(keys) IN
         OverrideItems(With(a, key, overrides.v[key]),
                       IF ContainedDict(a, key) THEN Append(warnings, key)
                       ELSE warnings,
                       Tail(keys), overrides)

override_dict_KeepExisting(a, overrides) ==
    [a |-> Dict([k \in DOMAIN a.v \cup DOMAIN overrides.v |->
                    IF k \in DOMAIN a.v THEN a.v[k] ELSE overrides.v[k]]),
     warnings |-> <<>>, overrides |-> overrides, value |-> None]

override_dict_Consumes(a, overrides) ==
    LET done == OverrideItems(a, <<>>, SeqOfSet(DOMAIN overrides.v), overrides)
    IN  [a |-> done.a, warnings |-> done.warnings, overrides |-> EmptyDict,
         value |-> None]

\* The call as a whole: a and the warnings after the loop, overrides, which
\* is only read, and the value returned (there is no return statement).
override_dict(a, overrides) ==
    LET done == OverrideItems(a, <<>>, SeqOfSet(DOMAIN overrides.v), overrides)
    IN  [a |-> done.a, warnings |-> done.warnings, overrides |-> overrides,
         value |-> None]

(***************************************************************************)
(* utils.handle_errors                                                     *)
(***************************************************************************)

\* The walk along errors_path: one key at a time, abandoned at the first
\* key that is absent or maps to a falsy value.
RECURSIVE WalkPath(_, _)
WalkPath(path_target, errors_path) ==
    IF Len(errors_path) = 0
    THEN [errors_path_found |-> TRUE, path_target |-> path_target]
    ELSE LET field == Head(errors_path) IN
         IF PyIn(field, path_target) /\ path_target.t = "dict"
               /\ Truthy(path_target.v[field])
         THEN WalkPath(path_target.v[field], Tail(errors_path))
         ELSE [errors_path_found |-> FALSE, path_target |-> path_target]

FormatError_Swapped(error) ==
    PyStr(error.v["message"]) \o " : " \o PyStr(error.v["field"])

\* "{field} : {message}".format(**error)
FormatError(error) ==
    PyStr(error.v["field"]) \o " : " \o PyStr(error.v["message"])

\* The entries of the list comprehension that pass its filter.
RECURSIVE Filter(_, _)
Filter(entries, key) ==
    IF Len(entries) = 0 THEN <<>>
    ELSE IF PyIn(key, Head(entries))
         THEN <<Head(entries)>> \o Filter(Tail(entries), key)
         ELSE Filter(Tail(entries), key)

PathTxtList_SkipIncomplete(path_target) ==
    LET kept == Filter(Filter(Iterate(path_target), "field"), "message") IN
    [exc |-> "", lines |-> [i \in 1..Len(kept) |->
        PyStr(kept[i].v["field"]) \o " : " \o PyStr(kept[i].v["message"])]]

\* [fmt(error) for error in path_target if 'field' in error]: the list of
\* lines, or the exception str.format raises on the first kept entry that is
\* no mapping or lacks the message key.
PathTxtList(path_target) ==
    LET kept == Filter(Iterate(path_target), "field") IN
    IF \E i \in 1..Len(kept) : kept[i].t # "dict"
    THEN [exc |-> "TypeError", lines |-> <<>>]
    ELSE IF \E i \in 1..Len(kept) : "message" \notin DOMAIN kept[i].v
    THEN [exc |-> "KeyError", lines |-> <<>>]
    ELSE [exc |-> "", lines |-> [i \in 1..Len(kept) |-> FormatError(kept[i])]]

TopTxtList_FirstOnly(response) ==
    LET kept == Filter(Iterate(response.v["errors"]), "message") IN
    [i \in 1..(IF Len(kept) > 0 THEN 1 ELSE 0) |-> kept[i].v["message"].v]

\* [error['message'] for error in response['errors'] if 'message' in error]
TopTxtList(response) ==
    LET kept == Filter(Iterate(response.v["errors"]), "message") IN
    [i \in 1..Len(kept) |-> kept[i].v["message"].v]

handle_errors_AnyErrorsKey(response, errors_path) ==
    LET walk == WalkPath(response, errors_path)
        specific ==
            IF Len(errors_path) > 0 /\ walk.errors_path_found
            THEN PathTxtList(walk.path_target)
            ELSE [exc |-> "", lines |-> <<>>]
        txt_list ==
            IF Len(specific.lines) = 0 /\ PyIn("errors", response)
            THEN TopTxtList(response)
            ELSE specific.lines
    IN  IF specific.exc # "" THEN Raised(specific.exc, "'message'")
        ELSE IF Len(txt_list) > 0 \/ PyIn("errors", response)
        THEN Raised("Exception", Join(txt_list, "\n"))
        ELSE Returned(None)

handle_errors_AlsoTopLevel(response, errors_path) ==
    LET walk == WalkPath(response, errors_path)
        specific ==
            IF Len(errors_path) > 0 /\ walk.errors_path_found
            THEN PathTxtList(walk.path_target)
            ELSE [exc |-> "", lines |-> <<>>]
        txt_list ==
            IF PyIn("errors", response) /\ Truthy(response.v["errors"])
            THEN specific.lines \o TopTxtList(response)
            ELSE specific.lines
    IN  IF specific.exc # "" THEN Raised(specific.exc, "'message'")
        ELSE IF Len(txt_list) > 0 THEN Raised("Exception", Join(txt_list, "\n"))
        ELSE Returned(None)

handle_errors_AbandonedReturns(response, errors_path) ==
    LET walk == WalkPath(response, errors_path)
        specific ==
            IF Len(errors_path) > 0 /\ walk.errors_path_found
            THEN PathTxtList(walk.path_target)
            ELSE [exc |-> "", lines |-> <<>>]
        txt_list ==
            IF Len(specific.lines) = 0 /\ PyIn("errors", response)
                  /\ Truthy(response.v["errors"])
            THEN TopTxtList(response)
            ELSE specific.lines
    IN  IF Len(errors_path) > 0 /\ ~walk.errors_path_found THEN Returned(None)
        ELSE IF specific.exc # "" THEN Raised(specific.exc, "'message'")
        ELSE IF Len(txt_list) > 0 THEN Raised("Exception", Join(txt_list, "\n"))
        ELSE Returned(None)

handle_errors(response, errors_path) ==
    LET walk == WalkPath(response, errors_path)
        specific ==
            IF Len(errors_path) > 0 /\ walk.errors_path_found
            THEN PathTxtList(walk.path_target)
            ELSE [exc |-> "", lines |-> <<>>]
        txt_list ==
            IF Len(specific.lines) = 0 /\ PyIn("errors", response)
                  /\ Truthy(response.v["errors"])
            THEN TopTxtList(response)
            ELSE specific.lines
    IN  IF specific.exc # "" THEN Raised(specific.exc, "'message'")
        ELSE IF Len(txt_list) > 0 THEN Raised("Exception", Join(txt_list, "\n"))
        ELSE Returned(None)


(***************************************************************************)
(* utils.graphql_request / graphql_multipart_request: what the executor    *)
(* makes of one HTTP answer (status code, deserialized body).              *)
(***************************************************************************)

TransportError_LastEntry(parsed_response) ==
    IF ~PyIn("errors", parsed_response)
    THEN Raised("KeyError", "'errors'")
    ELSE LET errors == parsed_response.v["errors"] IN
         IF errors.t # "list" THEN Raised("TypeError", "not subscriptable")
         ELSE IF Len(errors.v) = 0
         THEN Raised("IndexError", "list index out of range")
         ELSE LET last == errors.v[Len(errors.v)] IN
              IF ~PyIn("message", last) THEN Raised("KeyError", "'message'")
              ELSE IF ~PyIn("extensions", last)
              THEN Raised("KeyError", "'extensions'")
              ELSE Raised("Exception",
                          PyStr(last.v["message"]) \o "\n extensions: "
                             \o PyStr(last.v["extensions"]))

\* "{message}\n extensions: {extensions}".format(**parsed_response["errors"][0])
TransportError(parsed_response) ==
    IF ~PyIn("errors", parsed_response)
    THEN Raised("KeyError", "'errors'")
    ELSE LET errors == parsed_response.v["errors"] IN
         IF errors.t # "list" THEN Raised("TypeError", "not subscriptable")
         ELSE IF Len(errors.v) = 0
         THEN Raised("IndexError", "list index out of range")
         ELSE LET first == errors.v[1] IN
              IF ~PyIn("message", first) THEN Raised("KeyError", "'message'")
              ELSE IF ~PyIn("extensions", first)
              THEN Raised("KeyError", "'extensions'")
              ELSE Raised("Exception",
                          PyStr(first.v["message"]) \o "\n extensions: "
                             \o PyStr(first.v["extensions"]))

graphql_request_ChecksErrors(status_code, parsed_response) ==
    IF status_code # 200 \/ PyIn("errors", parsed_response)
    THEN TransportError(parsed_response)
    ELSE Returned(parsed_response)

graphql_request(status_code, parsed_response) ==
    IF status_code # 200 THEN TransportError(parsed_response)
    ELSE Returned(parsed_response)

graphql_multipart_request(status_code, parsed_response) ==
    IF status_code # 200 THEN TransportError(parsed_response)
    ELSE Returned(parsed_response)

\* bodyEncoder.content_type: the multipart content type with its boundary.
ContentType == Str("multipart/form-data; boundary=b1")

base_headers_KeepComputed(hdrs) ==
    override_dict(hdrs, Dict([k \in {"Content-Type"} |-> ContentType])).a

\* graphql_multipart_request: base_headers = {"Content-Type": ...} with the
\* caller's headers merged into it; these are the headers of the POST.
base_headers(hdrs) ==
    override_dict(Dict([k \in {"Content-Type"} |-> ContentType]), hdrs).a

(***************************************************************************)
(* utils.get_operations: the document of the multipart upload selects its  *)
(* error list under productErrors.                                         *)
(***************************************************************************)
get_operations ==
    [root |-> "productMediaCreate", document_errors |-> "productErrors",
     image |-> "0"]

\* The text of the upload's GraphQL document, abbreviated to its first words.
ProductMediaCreateQuery == "mutation ProductMediaCreate"

get_operations_variables_ImageOne(product_id, alt) ==
    Dict([product |-> product_id, image |-> Str("1"), alt |-> alt])

\* variables = {"product": product_id, "image": "0", "alt": alt}
get_operations_variables(product_id, alt) ==
    Dict([product |-> product_id, image |-> Str(get_operations.image),
          alt |-> alt])

\* return {"query": query, "variables": variables}
get_operations_document(product_id, alt) ==
    Dict([query |-> Str(ProductMediaCreateQuery),
          variables |-> get_operations_variables(product_id, alt)])

(***************************************************************************)
(* utils.get_payload: the three parts of the multipart body.  json.dumps   *)
(* writes a dict's items in insertion order; the strings of this model     *)
(* hold no character that JSON escapes.  A file path is the sequence of    *)
(* its components, the last of which is the file's name.                   *)
(***************************************************************************)

\* The keys of the dict literals, in the order the source writes them.
KeyOrder == <<"query", "variables", "product", "image", "alt", "0">>

KeysInOrder(d) == SelectSeq(KeyOrder, LAMBDA k : k \in DOMAIN d)

\* json.dumps(x)
RECURSIVE JsonDumps(_)
JsonDumps(x) ==
    CASE x.t = "None" -> "null"
      [] x.t = "str"  -> "\"" \o x.v \o "\""
      [] x.t = "int"  -> ToString(x.v)
      [] x.t = "bool" -> IF x.v THEN "true" ELSE "false"
      [] x.t = "list" ->
            "[" \o Join([i \in 1..Len(x.v) |-> JsonDumps(x.v[i])], ", ") \o "]"
      [] x.t = "dict" ->
            LET keys == KeysInOrder(x.v) IN
            "{" \o Join([i \in 1..Len(keys) |->
                          "\"" \o keys[i] \o "\": " \o JsonDumps(x.v[keys[i]])],
                        ", ") \o "}"

\* The files that exist, and the paths a caller may name.
ExistingFiles == {<<"img", "a.png">>, <<"b.jpg">>, <<"notes">>, <<"tmp", "c.gif">>}
FilePaths == ExistingFiles \cup {<<"missing.png">>}

\* mimetypes.guess_type(file_path)[0]: by the name's extension.
GuessType(file_path) ==
    CASE file_path[Len(file_path)] \in {"a.png", "missing.png"} -> Str("image/png")
      [] file_path[Len(file_path)] = "b.jpg" -> Str("image/jpeg")
      [] file_path[Len(file_path)] = "c.gif" -> Str("image/gif")
      [] OTHER -> None

\* (Path(file_path).name, open(file_path, 'rb'), mime_type)
FilePart(file_path, mime_type) ==
    List(<<Str(file_path[Len(file_path)]),
           Dict([opened |-> List([i \in 1..Len(file_path) |-> Str(file_path[i])]),
                 mode |-> Str("rb")]),
           mime_type>>)

get_payload(product_id, file_path, alt) ==
    LET mime_type == GuessType(file_path)
        operations == JsonDumps(get_operations_document(product_id, alt))
        map == JsonDumps(Dict([k \in {"0"} |-> List(<<Str("variables.image")>>)]))
    IN  IF file_path \notin ExistingFiles
        THEN Raised("FileNotFoundError", "No such file or directory")
        ELSE Returned(Dict([k \in {"operations", "map", "0"} |->
                 CASE k = "operations" -> Str(operations)
                   [] k = "map" -> Str(map)
                   [] k = "0" -> FilePart(file_path, mime_type)]))

(***************************************************************************)
(* The methods of ETLDataLoader.  For each: the root field of its GraphQL  *)
(* document, the error field that document selects in the payload, the     *)
(* errors_path it hands to handle_errors (<<>> when it gives none), and    *)
(* the subscripts of its return expression.                                *)
(***************************************************************************)
authenticate ==
    [name |-> "authenticate", kind |-> "mutation", root |-> "tokenCreate",
     document_errors |-> "",
     errors_path |-> <<>>,
     result_path |-> <<"data", "tokenCreate", "token">>,
     transport |-> "json",
     returns |-> "token"]

update_shop_settings ==
    [name |-> "update_shop_settings", kind |-> "mutation", root |-> "shopSettingsUpdate",
     document_errors |-> "errors",
     errors_path |-> <<"data", "shopSettingsUpdate", "errors">>,
     result_path |-> <<"data", "shopSettingsUpdate", "shop">>,
     transport |-> "json",
     returns |-> "value"]

update_shop_domain ==
    [name |-> "update_shop_domain", kind |-> "mutation", root |-> "shopDomainUpdate",
     document_errors |-> "errors",
     errors_path |-> <<"data", "shopDomainUpdate", "errors">>,
     result_path |-> <<"data", "shopDomainUpdate", "shop", "domain">>,
     transport |-> "json",
     returns |-> "value"]

update_shop_address ==
    [name |-> "update_shop_address", kind |-> "mutation", root |-> "shopAddressUpdate",
     document_errors |-> "errors",
     errors_path |-> <<"data", "shopAddressUpdate", "errors">>,
     result_path |-> <<"data", "shopAddressUpdate", "shop", "companyAddress">>,
     transport |-> "json",
     returns |-> "value"]

create_channel ==
    [name |-> "create_channel", kind |-> "mutation", root |-> "channelCreate",
     document_errors |-> "errors",
     errors_path |-> <<"data", "channelCreate", "errors">>,
     result_path |-> <<"data", "channelCreate", "channel", "id">>,
     transport |-> "json",
     returns |-> "value"]

create_warehouse ==
    [name |-> "create_warehouse", kind |-> "mutation", root |-> "createWarehouse",
     document_errors |-> "errors",
     errors_path |-> <<"data", "createWarehouse", "errors">>,
     result_path |-> <<"data", "createWarehouse", "warehouse", "id">>,
     transport |-> "json",
     returns |-> "value"]

create_shipping_zone ==
    [name |-> "create_shipping_zone", kind |-> "mutation", root |-> "shippingZoneCreate",
     document_errors |-> "errors",
     errors_path |-> <<"data", "shippingZoneCreate", "errors">>,
     result_path |-> <<"data", "shippingZoneCreate", "shippingZone", "id">>,
     transport |-> "json",
     returns |-> "value"]

create_attribute ==
    [name |-> "create_attribute", kind |-> "mutation", root |-> "attributeCreate",
     document_errors |-> "errors",
     errors_path |-> <<"data", "attributeCreate", "errors">>,
     result_path |-> <<"data", "attributeCreate", "attribute", "id">>,
     transport |-> "json",
     returns |-> "value"]

create_attribute_value ==
    [name |-> "create_attribute_value", kind |-> "mutation", root |-> "attributeValueCreate",
     document_errors |-> "errors",
     errors_path |-> <<"data", "attributeValueCreate", "errors">>,
     result_path |-> <<"data", "attributeValueCreate", "attribute", "id">>,
     transport |-> "json",
     returns |-> "value"]

create_product_type ==
    [name |-> "create_product_type", kind |-> "mutation", root |-> "productTypeCreate",
     document_errors |-> "errors",
     errors_path |-> <<"data", "productTypeCreate", "errors">>,
     result_path |-> <<"data", "productTypeCreate", "productType", "id">>,
     transport |-> "json",
     returns |-> "value"]

create_category ==
    [name |-> "create_category", kind |-> "mutation", root |-> "categoryCreate",
     document_errors |-> "errors",
     errors_path |-> <<"data", "categoryCreate", "errors">>,
     result_path |-> <<"data", "categoryCreate", "category", "id">>,
     transport |-> "json",
     returns |-> "value"]

create_product ==
    [name |-> "create_product", kind |-> "mutation", root |-> "productCreate",
     document_errors |-> "errors",
     errors_path |-> <<"data", "productCreate", "errors">>,
     result_path |-> <<"data", "productCreate", "product", "id">>,
     transport |-> "json",
     returns |-> "value"]

create_product_variant ==
    [name |-> "create_product_variant", kind |-> "mutation", root |-> "productVariantCreate",
     document_errors |-> "errors",
     errors_path |-> <<"data", "productVariantCreate", "errors">>,
     result_path |-> <<"data", "productVariantCreate", "productVariant", "id">>,
     transport |-> "json",
     returns |-> "value"]

create_product_media(file_path) ==
    [name |-> "create_product_media", kind |-> "mutation", root |-> "productMediaCreate",
     document_errors |-> IF file_path THEN get_operations.document_errors ELSE "errors",
     errors_path |-> <<"data", "productMediaCreate", "errors">>,
     result_path |-> <<"data", "productMediaCreate", "media", "id">>,
     transport |-> IF file_path THEN "multipart" ELSE "json",
     returns |-> "value"]

create_customer_account ==
    [name |-> "create_customer_account", kind |-> "mutation", root |-> "customerCreate",
     document_errors |-> "errors",
     errors_path |-> <<"data", "customerCreate", "errors">>,
     result_path |-> <<"data", "customerCreate", "user", "id">>,
     transport |-> "json",
     returns |-> "value"]

find_customer_by_email ==
    [name |-> "find_customer_by_email", kind |-> "query", root |-> "user",
     document_errors |-> "",
     errors_path |-> <<"data", "user">>,
     result_path |-> <<"data", "user", "id">>,
     transport |-> "json",
     returns |-> "optional"]

delete_customer_account ==
    [name |-> "delete_customer_account", kind |-> "mutation", root |-> "customerDelete",
     document_errors |-> "errors",
     errors_path |-> <<"data", "customerDelete", "errors">>,
     result_path |-> <<"data", "customerDelete", "user", "id">>,
     transport |-> "json",
     returns |-> "value"]

delete_customer_accounts ==
    [name |-> "delete_customer_accounts", kind |-> "mutation", root |-> "customerBulkDelete",
     document_errors |-> "errors",
     errors_path |-> <<"data", "customerBulkDelete", "errors">>,
     result_path |-> <<"data", "customerBulkDelete", "count">>,
     transport |-> "json",
     returns |-> "value"]

update_product ==
    [name |-> "update_product", kind |-> "mutation", root |-> "productUpdate",
     document_errors |-> "errors",
     errors_path |-> <<"data", "productUpdate", "errors">>,
     result_path |-> <<"data", "productUpdate", "product", "id">>,
     transport |-> "json",
     returns |-> "value"]

update_product_channel_listings ==
    [name |-> "update_product_channel_listings", kind |-> "mutation", root |-> "productChannelListingUpdate",
     document_errors |-> "errors",
     errors_path |-> <<"data", "productChannelListingUpdate", "errors">>,
     result_path |-> <<"data", "productChannelListingUpdate", "product", "id">>,
     transport |-> "json",
     returns |-> "value"]

update_product_variant_channel_listings ==
    [name |-> "update_product_variant_channel_listings", kind |-> "mutation", root |-> "productVariantChannelListingUpdate",
     document_errors |-> "errors",
     errors_path |-> <<"data", "productVariantChannelListingUpdate", "errors">>,
     result_path |-> <<"data", "productVariantChannelListingUpdate", "variant", "id">>,
     transport |-> "json",
     returns |-> "value"]

update_product_variant_stocks ==
    [name |-> "update_product_variant_stocks", kind |-> "mutation", root |-> "productVariantStocksUpdate",
     document_errors |-> "errors",
     errors_path |-> <<"data", "productVariantStocksUpdate", "errors">>,
     result_path |-> <<"data", "productVariantStocksUpdate", "productVariant", "id">>,
     transport |-> "json",
     returns |-> "value"]

update_public_meta ==
    [name |-> "update_public_meta", kind |-> "mutation", root |-> "updateMetadata",
     document_errors |-> "errors",
     errors_path |-> <<"data", "updateMetadata", "errors">>,
     result_path |-> <<"data", "updateMetadata", "item", "metadata">>,
     transport |-> "json",
     returns |-> "len"]

update_private_meta ==
    [name |-> "update_private_meta", kind |-> "mutation", root |-> "updatePrivateMetadata",
     document_errors |-> "metadataErrors",
     errors_path |-> <<"data", "updatePrivateMetadata", "errors">>,
     result_path |-> <<"data", "updatePrivateMetadata", "item", "privateMetadata">>,
     transport |-> "json",
     returns |-> "len"]

update_plugin ==
    [name |-> "update_plugin", kind |-> "mutation", root |-> "pluginUpdate",
     document_errors |-> "errors",
     errors_path |-> <<"data", "pluginUpdate", "errors">>,
     result_path |-> <<"data", "pluginUpdate", "plugin">>,
     transport |-> "json",
     returns |-> "value"]

fetch_channels ==
    [name |-> "fetch_channels", kind |-> "query", root |-> "channels",
     document_errors |-> "",
     errors_path |-> <<>>,
     result_path |-> <<"data", "channels">>,
     transport |-> "json",
     returns |-> "value"]

fetch_warehouses ==
    [name |-> "fetch_warehouses", kind |-> "pager", root |-> "warehouses",
     document_errors |-> "",
     errors_path |-> <<>>,
     result_path |-> <<"data", "warehouses">>,
     transport |-> "json",
     returns |-> "accumulator"]

fetch_product_types ==
    [name |-> "fetch_product_types", kind |-> "pager", root |-> "productTypes",
     document_errors |-> "",
     errors_path |-> <<>>,
     result_path |-> <<"data", "productTypes">>,
     transport |-> "json",
     returns |-> "accumulator"]

fetch_product_categories ==
    [name |-> "fetch_product_categories", kind |-> "categories", root |-> "categories",
     document_errors |-> "",
     errors_path |-> <<>>,
     result_path |-> <<"data", "categories">>,
     transport |-> "json",
     returns |-> "accumulator"]

fetch_products ==
    [name |-> "fetch_products", kind |-> "pager", root |-> "products",
     document_errors |-> "",
     errors_path |-> <<>>,
     result_path |-> <<"data", "products">>,
     transport |-> "json",
     returns |-> "accumulator"]

fetch_product_variant ==
    [name |-> "fetch_product_variant", kind |-> "query", root |-> "productVariant",
     document_errors |-> "",
     errors_path |-> <<>>,
     result_path |-> <<"data", "productVariant">>,
     transport |-> "json",
     returns |-> "value"]

fetch_customers ==
    [name |-> "fetch_customers", kind |-> "pager", root |-> "customers",
     document_errors |-> "",
     errors_path |-> <<>>,
     result_path |-> <<"data", "customers">>,
     transport |-> "json",
     returns |-> "accumulator"]

fetch_attribute ==
    [name |-> "fetch_attribute", kind |-> "query", root |-> "attribute",
     document_errors |-> "",
     errors_path |-> <<>>,
     result_path |-> <<"data", "attribute">>,
     transport |-> "json",
     returns |-> "value"]

\* set_auth_header called on its own: no document and no request.
set_auth_header_method ==
    [name |-> "set_auth_header", kind |-> "local", root |-> "",
     document_errors |-> "",
     errors_path |-> <<>>,
     result_path |-> <<>>,
     transport |-> "none",
     returns |-> "none"]

NoMethod ==
    [name |-> "none", kind |-> "none", root |-> "", document_errors |-> "",
     errors_path |-> <<>>, result_path |-> <<>>, transport |-> "json",
     returns |-> "none"]

Methods ==
    {authenticate, update_shop_settings, update_shop_domain,
     update_shop_address, create_channel, create_warehouse,
     create_shipping_zone, create_attribute, create_attribute_value,
     create_product_type, create_category, create_product,
     create_product_variant,
     create_product_media(TRUE), create_product_media(FALSE),
     create_customer_account, find_customer_by_email,
     delete_customer_account, delete_customer_accounts, update_product,
     update_product_channel_listings,
     update_product_variant_channel_listings,
     update_product_variant_stocks, update_public_meta,
     update_private_meta, update_plugin, fetch_channels, fetch_warehouses,
     fetch_product_types, fetch_product_categories, fetch_products,
     fetch_product_variant, fetch_customers, fetch_attribute}

(***************************************************************************)
(* Bounds of the model.                                                    *)
(***************************************************************************)
\* Requests one call may issue before the model stops following it.
MaxRequests == 3
\* Longest error list the server puts into a body.
MaxErrors == 2

(***************************************************************************)
(* The remote server: the bodies it may answer with.                       *)
(***************************************************************************)
StatusCodes == {200, 400}
Messages == {"m1", "m2"}
Fields == {"name"}
Cursors == {"c1", "c2"}
Nodes == {"n1", "n2"}
TotalCounts == {0, 5}

SeqsUpTo(S, n) == UNION {[1..k -> S] : k \in 0..n}

\* Error records of an operation-specific list: field is optional and may
\* be null, message may be missing.
ErrorRecords ==
    {Dict([field |-> Str(f), message |-> Str(m)]) : f \in Fields, m \in Messages}
    \cup {Dict([field |-> None, message |-> Str(m)]) : m \in Messages}
    \cup {Dict([message |-> Str(m)]) : m \in Messages}
    \cup {Dict([field |-> Str(f)]) : f \in Fields}

\* Entries of the top-level errors list: each carries a message.
TopErrorRecords ==
    {Dict([message |-> Str(m)]) : m \in Messages}
    \cup {Dict([message |-> Str(m), extensions |-> Str("ext")]) : m \in {"m1"}}

\* A dict that is nested along path and ends in leaf.
RECURSIVE Nest(_, _)
Nest(path, leaf) ==
    IF Len(path) = 0 THEN leaf
    ELSE Dict([k \in {Head(path)} |-> Nest(Tail(path), leaf)])

\* The body {"data": data} with or without a top-level "errors" entry.
Bodies(datas, errorLists) ==
    {Dict([data |-> d]) : d \in datas}
    \cup {Dict([data |-> d, errors |-> e]) : d \in datas, e \in errorLists}

\* Values a method's return expression may end in.
Leaves(m) ==
    CASE m.returns = "len"   -> {List(<<>>), List(<<Dict([key |-> Str("k")])>>)}
      [] m.returns = "token" -> {Str("tok1"), Str(""), None}
      [] m.name = "delete_customer_accounts" -> {Num(2)}
      [] m.name = "fetch_channels" -> {List(<<>>), List(<<Str("ch1")>>)}
      [] OTHER -> {Str("id1")}

\* The error lists a server puts under the error field of a mutation's
\* payload, as that mutation's document selects them (field and message).
DocumentErrorLists ==
    {List(<<>>),
     List(<<Dict([field |-> Str("name"), message |-> Str("m1")])>>),
     List(<<Dict([field |-> None, message |-> Str("m2")]),
            Dict([field |-> Str("name"), message |-> Str("m1")])>>)}

\* Payloads under data[root] of a single-request method.
Payloads(m) ==
    LET rest == SubSeq(m.result_path, 3, Len(m.result_path))
        results ==
            {Nest(rest, leaf) : leaf \in Leaves(m)}
            \cup (IF Len(rest) > 0
                  THEN {Nest(<<Head(rest)>>, None)} ELSE {})
    IN  IF m.document_errors = ""
        THEN results \cup {None}
        ELSE {With(r, m.document_errors, e) :
                 r \in {x \in results : x.t = "dict"}, e \in DocumentErrorLists}
             \cup {None}

EdgeLists ==
    {List(<<>>),
     List(<<Dict([node |-> Str("n1")]), Dict([node |-> Str("n2")])>>),
     List(<<Dict([node |-> Str("n2")])>>)}

\* One page of a listing: pageInfo, edges and (category listing) totalCount.
\* A page that has a next page names any cursor; a zero totalCount comes
\* with an empty page or, the count being stale, with a filled one.
Page(h, c, e) ==
    Dict([pageInfo |-> Dict([hasNextPage |-> Bool(h), endCursor |-> c]),
          edges |-> e])

Pages(m) ==
    LET flat == {Page(TRUE, Str(c), e) : c \in Cursors, e \in EdgeLists}
                \cup {Page(FALSE, Str("c1"), e) : e \in EdgeLists}
        count == CHOOSE n \in TotalCounts : n # 0
    IN  IF m.kind = "categories"
        THEN {With(p, "totalCount", Num(count)) : p \in flat}
             \cup {With(Page(FALSE, None, List(<<>>)), "totalCount", Num(0)),
                   With(Page(TRUE, Str("c2"), CHOOSE e \in EdgeLists : Truthy(e)),
                        "totalCount", Num(0))}
        ELSE flat

TopErrorLists ==
    {List(<<>>), List(<<Dict([message |-> Str("m1")])>>),
     List(<<Dict([message |-> Str("m2")]),
            Dict([message |-> Str("m1"), extensions |-> Str("ext")])>>)}

\* The pages that end the loop of paging method m.
LastPages(m) ==
    {p \in Pages(m) : IF m.kind = "categories" THEN ~Truthy(p.v["totalCount"])
                      ELSE ~Truthy(p.v["pageInfo"].v["hasNextPage"])}

\* Bodies of a 200 answer to a request of method m.  Of the pages of a
\* listing, those that end the loop come with and without an empty errors
\* list, the others without one.
SuccessBodies(m) ==
    LET payloads == IF m.kind \in {"pager", "categories"}
                    THEN Pages(m) \cup {None} ELSE Payloads(m)
        datas == {None} \cup {Nest(<<m.root>>, p) : p \in payloads}
    IN  IF m.kind \in {"pager", "categories"}
        THEN Bodies(datas, TopErrorLists \ {List(<<>>)})
             \cup {Dict([data |-> Nest(<<m.root>>, p), errors |-> List(<<>>)]) :
                      p \in LastPages(m)}
        ELSE Bodies(datas, TopErrorLists)

\* Bodies of a non-200 answer.
FailureBodies ==
    {Dict([errors |-> List(<<Dict([message |-> Str("m1"),
                                   extensions |-> Str("ext")]),
                             Dict([message |-> Str("m2"),
                                   extensions |-> Str("ext")])>>)]),
     Dict([errors |-> List(<<>>)]),
     Dict([errors |-> List(<<Dict([message |-> Str("m1")])>>)]),
     EmptyDict}

(***************************************************************************)
(* State.                                                                  *)
(***************************************************************************)
VARIABLES
    headers,        \* self.headers
    method,         \* the method being executed (NoMethod between calls)
    pc,             \* where that call stands
    variables,      \* the variables of the next request
    level,          \* fetch_product_categories: level
    accumulator,    \* a pager's list of nodes collected so far
    response,       \* the response last received
    result,         \* the call's outcome
    requests,       \* history: the variables of every request of the call
    received,       \* history: every body the executor returned to the call
    examined,       \* history: responses handle_errors returned normally on
    sent_headers,   \* history: the headers of the request last sent
    init_args,      \* the constructor's arguments, until the first call
    he_response,    \* handle_errors alone: its arguments and its outcome
    he_errors_path,
    he_outcome,
    ex_request,     \* the request executors alone: one call and its outcome
    ex_outcome,
    od_a,           \* override_dict alone: its arguments and its outcome
    od_overrides,
    od_outcome,
    od_again,       \* ... and the outcome of the same call made once more
    gp_args,        \* get_payload alone: its arguments and its outcome
    gp_outcome

loader_vars == <<headers, method, pc, variables, level, accumulator, response,
                 result, requests, received, examined, sent_headers,
                 init_args>>
he_vars == <<he_response, he_errors_path, he_outcome>>
ex_vars == <<ex_request, ex_outcome>>
od_vars == <<od_a, od_overrides, od_outcome, od_again>>
gp_vars == <<gp_args, gp_outcome>>
pure_vars == <<he_vars, ex_vars, od_vars, gp_vars>>
vars == <<loader_vars, pure_vars>>

NoResult == [kind |-> "none", exc |-> "", text |-> "", value |-> None]
NoVariables == [input |-> "kwargs"]

\* variables as each method first builds them.
InitialVariables(m) ==
    CASE m.kind = "pager"      -> [after |-> Str("")]
      [] m.kind = "categories" -> [level |-> 0, after |-> Str("")]
      [] OTHER                 -> NoVariables

\* x[path[1]][path[2]]...: the value, or the exception of the first
\* subscript that fails.
RECURSIVE Subscript(_, _)
Subscript(x, path) ==
    IF Len(path) = 0 THEN Returned(x)
    ELSE IF x.t = "dict"
         THEN IF Head(path) \in DOMAIN x.v
              THEN Subscript(x.v[Head(path)], Tail(path))
              ELSE Raised("KeyError", Head(path))
         ELSE Raised("TypeError", "object is not subscriptable")

NoArgs == [auth_token |-> None, email |-> None, password |-> None,
           given |-> FALSE]

\* No call is in progress.
NoCall ==
    /\ method = NoMethod
    /\ variables = NoVariables
    /\ level = 0
    /\ accumulator = <<>>
    /\ response = None
    /\ result = NoResult
    /\ requests = <<>>
    /\ received = <<>>
    /\ examined = 0
    /\ sent_headers = None

LoaderIdle ==
    /\ pc = "idle"
    /\ NoCall
    /\ init_args = NoArgs

HandleErrorsIdle ==
    /\ he_response = None
    /\ he_errors_path = <<>>
    /\ he_outcome = NoResult

ExecutorIdle ==
    /\ ex_request = None
    /\ ex_outcome = NoResult

OverrideDictIdle ==
    /\ od_a = None
    /\ od_overrides = None
    /\ od_outcome = NoResult
    /\ od_again = NoResult

PayloadIdle ==
    /\ gp_args = None
    /\ gp_outcome = NoResult

\* ETLDataLoader.__init__ up to self.headers = {}: the credentials are not
\* looked at yet.
Init ==
    /\ headers = EmptyDict
    /\ pc = "new"
    /\ NoCall
    /\ init_args = NoArgs
    /\ HandleErrorsIdle
    /\ ExecutorIdle
    /\ OverrideDictIdle
    /\ PayloadIdle

(***************************************************************************)
(* The steps of a call.                                                    *)
(***************************************************************************)

\* The file paths a caller may hand to create_product_media.
UploadPaths == {<<"img", "a.png">>, <<"missing.png">>}

UploadBody_OpenedLater(file_path) == Returned(None)

\* create_product_media: body = get_payload(product_id, file_path, alt)
UploadBody(file_path) == get_payload(Str("UHJvZHVjdDox"), file_path, Str(""))

\* A method is entered: its variables and accumulator are built, and for
\* an upload of a file the multipart body, which opens the file.
Call ==
    /\ pc = "idle"
    /\ \E m \in Methods :
          /\ method' = m
          /\ IF m = create_product_media(TRUE)
             THEN \E file_path \in UploadPaths :
                     LET body == UploadBody(file_path) IN
                     /\ variables' = [input |-> "body", file_path |-> file_path]
                     /\ pc' = IF body.kind = "raise" THEN "raised"
                              ELSE "request"
                     /\ result' = IF body.kind = "raise" THEN body
                                  ELSE NoResult
             ELSE /\ variables' = InitialVariables(m)
                  /\ pc' = "request"
                  /\ result' = NoResult
    /\ level' = 0
    /\ accumulator' = <<>>
    /\ response' = None
    /\ requests' = <<>>
    /\ received' = <<>>
    /\ examined' = 0
    /\ sent_headers' = None
    /\ init_args' = NoArgs
    /\ UNCHANGED <<headers, pure_vars>>

MultipartHeaders_IntoInstance(self_headers) ==
    LET merged ==
          override_dict(self_headers,
                        Dict([k \in {"Content-Type"} |-> ContentType])).a
    IN  [instance |-> merged, sent |-> merged]

\* graphql_multipart_request(body, self.headers, ...): the merge changes
\* the fresh base_headers in place, of which the instance's mapping is only
\* the source.
MultipartHeaders(self_headers) ==
    [instance |-> self_headers, sent |-> base_headers(self_headers)]

\* response = graphql_request(query, variables, self.headers, ...): one
\* POST with the headers it is given, and the server's answer to it.
Request ==
    /\ pc = "request"
    /\ Len(requests) < MaxRequests
    /\ requests' = Append(requests, variables)
    /\ \E status_code \in StatusCodes :
        \E body \in (IF status_code = 200 THEN SuccessBodies(method)
                                          ELSE FailureBodies) :
          LET out == IF method.transport = "multipart"
                     THEN graphql_multipart_request(status_code, body)
                     ELSE graphql_request(status_code, body)
          IN  IF out.kind = "raise"
              THEN /\ pc' = "raised"
                   /\ result' = out
                   /\ UNCHANGED <<response, received>>
              ELSE /\ pc' = "handle"
                   /\ response' = out.value
                   /\ received' = Append(received, out.value)
                   /\ UNCHANGED result
    /\ LET hdrs == IF method.transport = "multipart"
                   THEN MultipartHeaders(headers)
                   ELSE [instance |-> headers, sent |-> headers]
       IN  /\ headers' = hdrs.instance
           /\ sent_headers' = hdrs.sent
    /\ UNCHANGED <<method, variables, level, accumulator, examined, init_args,
                   pure_vars>>

HandleErrors_Unchecked ==
    /\ pc = "handle"
    /\ pc' = "read"
    /\ UNCHANGED <<headers, method, variables, level, accumulator, response,
                   result, requests, received, examined, sent_headers, init_args,
                   pure_vars>>

HandleErrors_Retry ==
    /\ pc = "handle"
    /\ LET out == handle_errors(response, method.errors_path) IN
          IF out.kind = "raise"
          THEN /\ pc' = "request"
               /\ UNCHANGED <<result, examined>>
          ELSE /\ pc' = "read"
               /\ examined' = examined + 1
               /\ UNCHANGED result
    /\ UNCHANGED <<headers, method, variables, level, accumulator, response,
                   requests, received, sent_headers, init_args,
                   pure_vars>>

\* handle_errors(response, errors_path) as the method calls it.
HandleErrors ==
    /\ pc = "handle"
    /\ LET out == handle_errors(response, method.errors_path) IN
          IF out.kind = "raise"
          THEN /\ pc' = "raised"
               /\ result' = out
               /\ UNCHANGED examined
          ELSE /\ pc' = "read"
               /\ examined' = examined + 1
               /\ UNCHANGED result
    /\ UNCHANGED <<headers, method, variables, level, accumulator, response,
                   requests, received, sent_headers, init_args,
                   pure_vars>>

\* The return statement of a single-request method.
ReturnValue(m, resp) ==
    LET val == Subscript(resp, m.result_path) IN
    CASE m.returns = "value" -> val
      [] m.returns = "len" ->
            IF val.kind = "raise" THEN val
            ELSE IF val.value.t # "list"
            THEN Raised("TypeError", "object has no len()")
            ELSE IF Len(val.value.v) > 0 THEN Returned(Str("item_id"))
            ELSE Returned(None)
      [] m.returns = "optional" ->
            LET user == Subscript(resp, <<"data", "user">>) IN
            IF user.kind = "raise" THEN user
            ELSE IF ~Truthy(user.value) THEN Returned(None)
            ELSE val

ReadResult ==
    /\ pc = "read"
    /\ method.returns \in {"value", "len", "optional"}
    /\ result' = ReturnValue(method, response)
    /\ pc' = IF result'.kind = "raise" THEN "raised" ELSE "returned"
    /\ UNCHANGED <<headers, method, variables, level, accumulator, response,
                   requests, received, examined, sent_headers, init_args,
                   pure_vars>>

set_auth_header_NoScheme(hdrs, auth_token) ==
    IF Truthy(auth_token)
    THEN [headers |-> With(hdrs, "Authorization", Str(PyStr(auth_token))),
          outcome |-> Returned(None)]
    ELSE [headers |-> hdrs,
          outcome |-> Raised("Exception",
                        "Authentication failed - check details are correct")]

set_auth_header_DropsOnFailure(hdrs, auth_token) ==
    IF Truthy(auth_token)
    THEN [headers |-> With(hdrs, "Authorization",
                           Str("Bearer " \o PyStr(auth_token))),
          outcome |-> Returned(None)]
    ELSE [headers |-> EmptyDict,
          outcome |-> Raised("Exception",
                        "Authentication failed - check details are correct")]

\* ETLDataLoader.set_auth_header
set_auth_header(hdrs, auth_token) ==
    IF Truthy(auth_token)
    THEN [headers |-> With(hdrs, "Authorization",
                           Str("Bearer " \o PyStr(auth_token))),
          outcome |-> Returned(None)]
    ELSE [headers |-> hdrs,
          outcome |-> Raised("Exception",
                        "Authentication failed - check details are correct")]

\* authenticate: self.set_auth_header(response["data"]["tokenCreate"]["token"])
SetAuthHeader ==
    /\ pc = "read"
    /\ method.returns = "token"
    /\ LET token == Subscript(response, method.result_path) IN
          IF token.kind = "raise"
          THEN /\ result' = token
               /\ UNCHANGED headers
          ELSE LET set == set_auth_header(headers, token.value) IN
               /\ result' = set.outcome
               /\ headers' = set.headers
    /\ pc' = IF result'.kind = "raise" THEN "raised" ELSE "returned"
    /\ UNCHANGED <<method, variables, level, accumulator, response, requests,
                   received, examined, sent_headers, init_args,
                   pure_vars>>

\* The credentials a caller may construct the loader with.
AuthTokens == {None, Str(""), Str("tok0")}
Emails == {None, Str("e1")}
Passwords == {None, Str("p1")}

Construct_TokenFirst ==
    /\ pc = "new"
    /\ \E auth_token \in AuthTokens, email \in Emails, password \in Passwords :
          /\ init_args' = [auth_token |-> auth_token, email |-> email,
                           password |-> password, given |-> TRUE]
          /\ IF Truthy(auth_token)
             THEN /\ headers' = set_auth_header(headers, auth_token).headers
                  /\ pc' = "idle"
                  /\ UNCHANGED <<method, variables>>
             ELSE IF Truthy(email) /\ Truthy(password)
             THEN /\ method' = authenticate
                  /\ variables' = InitialVariables(authenticate)
                  /\ pc' = "request"
                  /\ UNCHANGED headers
             ELSE /\ pc' = "idle"
                  /\ UNCHANGED <<headers, method, variables>>
    /\ UNCHANGED <<level, accumulator, response, result, requests, received,
                   examined, sent_headers, pure_vars>>

\* The rest of ETLDataLoader.__init__: authenticate when both email and
\* password are given, else set_auth_header when a token is given, else
\* nothing.
Construct ==
    /\ pc = "new"
    /\ \E auth_token \in AuthTokens, email \in Emails, password \in Passwords :
          /\ init_args' = [auth_token |-> auth_token, email |-> email,
                           password |-> password, given |-> TRUE]
          /\ IF Truthy(email) /\ Truthy(password)
             THEN /\ method' = authenticate
                  /\ variables' = InitialVariables(authenticate)
                  /\ pc' = "request"
                  /\ UNCHANGED headers
             ELSE IF Truthy(auth_token)
             THEN /\ headers' = set_auth_header(headers, auth_token).headers
                  /\ pc' = "idle"
                  /\ UNCHANGED <<method, variables>>
             ELSE /\ pc' = "idle"
                  /\ UNCHANGED <<headers, method, variables>>
    /\ UNCHANGED <<level, accumulator, response, result, requests, received,
                   examined, sent_headers, pure_vars>>

\* A caller sets the token directly: set_auth_header(auth_token).
CallSetAuthHeader ==
    /\ pc = "idle"
    /\ \E auth_token \in AuthTokens :
          LET set == set_auth_header(headers, auth_token) IN
          /\ headers' = set.headers
          /\ result' = set.outcome
          /\ pc' = IF set.outcome.kind = "raise" THEN "raised" ELSE "returned"
    /\ method' = set_auth_header_method
    /\ init_args' = NoArgs
    /\ UNCHANGED <<variables, level, accumulator, response, requests, received,
                   examined, sent_headers, pure_vars>>

\* [edge["node"] for edge in edges]
NodesOf(edges) == [i \in 1..Len(edges.v) |-> edges.v[i].v["node"]]

AppendNodes_Replace(acc, edges) == NodesOf(edges)

AppendNodes_Prepend(acc, edges) == NodesOf(edges) \o acc

\* for edge in page["edges"]: accumulator.append(edge["node"])
AppendNodes(acc, edges) == acc \o NodesOf(edges)

SetAfter_Stale(vs, endCursor) == vs

\* variables["after"] = page["pageInfo"]["endCursor"]
SetAfter(vs, endCursor) == [vs EXCEPT !.after = endCursor]

\* The loop body of a flat pager after handle_errors: append the page's
\* nodes, read hasNextPage and endCursor, loop or return the accumulator.
PageStep ==
    /\ pc = "read"
    /\ method.kind = "pager"
    /\ LET data == Subscript(response, method.result_path)
           edges == Subscript(response, method.result_path \o <<"edges">>)
           has_next_page == Subscript(response,
                  method.result_path \o <<"pageInfo", "hasNextPage">>)
           endCursor == Subscript(response,
                  method.result_path \o <<"pageInfo", "endCursor">>)
       IN  IF edges.kind = "raise"
           THEN /\ pc' = "raised"
                /\ result' = IF data.kind = "raise" THEN data ELSE edges
                /\ UNCHANGED <<accumulator, variables>>
           ELSE /\ accumulator' = AppendNodes(accumulator, edges.value)
                /\ variables' = SetAfter(variables, endCursor.value)
                /\ IF Truthy(has_next_page.value)
                   THEN pc' = "request" /\ UNCHANGED result
                   ELSE /\ pc' = "returned"
                        /\ result' = Returned(List(accumulator'))
    /\ UNCHANGED <<headers, method, level, response, requests, received,
                   examined, sent_headers, init_args,
                   pure_vars>>

LevelHasItems_Always(categories) == TRUE

LevelHasItems_ByEdges(categories) == Truthy(categories.v["edges"])

\* if categories["totalCount"]:
LevelHasItems(categories) == Truthy(categories.v["totalCount"])

NextLevelVariables_KeepCursor(lvl, vs) == [level |-> lvl, after |-> vs.after]

\* variables = {"level": level, "after": ""}
NextLevelVariables(lvl, vs) == [level |-> lvl, after |-> Str("")]

\* The loop body of fetch_product_categories after handle_errors.
CategoriesStep ==
    /\ pc = "read"
    /\ method.kind = "categories"
    /\ LET categories == Subscript(response, method.result_path)
           totalCount == Subscript(response,
                  method.result_path \o <<"totalCount">>)
       IN  IF totalCount.kind = "raise"
           THEN /\ pc' = "raised"
                /\ result' = IF categories.kind = "raise" THEN categories
                             ELSE totalCount
                /\ UNCHANGED <<accumulator, variables, level>>
           ELSE IF LevelHasItems(categories.value)
           THEN LET edges == categories.value.v["edges"]
                    has_next_page ==
                        categories.value.v["pageInfo"].v["hasNextPage"]
                    endCursor == categories.value.v["pageInfo"].v["endCursor"]
                IN  /\ accumulator' = AppendNodes(accumulator, edges)
                    /\ IF Truthy(has_next_page)
                       THEN /\ variables' = SetAfter(variables, endCursor)
                            /\ UNCHANGED level
                       ELSE /\ level' = level + 1
                            /\ variables' = NextLevelVariables(level', variables)
                    /\ pc' = "request"
                    /\ UNCHANGED result
           ELSE /\ pc' = "returned"
                /\ result' = Returned(List(accumulator))
                /\ UNCHANGED <<accumulator, variables, level>>
    /\ UNCHANGED <<headers, method, response, requests, received, examined,
                   sent_headers, init_args,
                   pure_vars>>

\* The caller has the outcome and goes on to its next call.
NextCall ==
    /\ pc \in {"returned", "raised"}
    /\ ~(pc = "raised" /\ init_args.given)
    /\ method' = NoMethod
    /\ pc' = "idle"
    /\ variables' = NoVariables
    /\ level' = 0
    /\ accumulator' = <<>>
    /\ response' = None
    /\ result' = NoResult
    /\ requests' = <<>>
    /\ received' = <<>>
    /\ examined' = 0
    /\ sent_headers' = None
    /\ init_args' = NoArgs
    /\ UNCHANGED <<headers, pure_vars>>

Next ==
    \/ Construct
    \/ Call
    \/ CallSetAuthHeader
    \/ Request
    \/ HandleErrors
    \/ ReadResult
    \/ SetAuthHeader
    \/ PageStep
    \/ CategoriesStep
    \/ NextCall

Spec == Init /\ [][Next]_vars

(***************************************************************************)
(* The paging methods of a loader constructed without credentials, with    *)
(* the progress of the interpreter: once a response is in hand, the        *)
(* method's next statement is executed.  Nothing is assumed of the server. *)
(***************************************************************************)
InitPagers ==
    /\ headers = EmptyDict
    /\ LoaderIdle
    /\ HandleErrorsIdle
    /\ ExecutorIdle
    /\ OverrideDictIdle
    /\ PayloadIdle

\* A paging method is entered.
CallPager == Call /\ method'.kind \in {"pager", "categories"}

NextPagers ==
    \/ CallPager
    \/ Request
    \/ HandleErrors
    \/ PageStep
    \/ CategoriesStep
    \/ NextCall

SpecPagers ==
    /\ InitPagers
    /\ [][NextPagers]_vars
    /\ WF_vars(HandleErrors)
    /\ WF_vars(PageStep)
    /\ WF_vars(CategoriesStep)

(***************************************************************************)
(* handle_errors alone, on every response and path within the bounds.      *)
(***************************************************************************)
ErrorsPaths ==
    {<<>>, <<"data", "productCreate", "errors">>,
     <<"data", "productUpdate", "errors">>, <<"data", "productCreate">>}

HandleErrorsDatas ==
    {None, EmptyDict, Nest(<<"productCreate">>, None),
     Nest(<<"productCreate">>, Dict([product |-> None]))}
    \cup {Nest(<<"productCreate", "errors">>, List(e)) :
             e \in SeqsUpTo(ErrorRecords, MaxErrors)}

HandleErrorsResponses ==
    {EmptyDict}
    \cup Bodies(HandleErrorsDatas,
                {List(e) : e \in SeqsUpTo(TopErrorRecords, MaxErrors)})

InitHandleErrors ==
    /\ headers = EmptyDict
    /\ LoaderIdle
    /\ ExecutorIdle
    /\ OverrideDictIdle
    /\ PayloadIdle
    /\ he_response \in HandleErrorsResponses
    /\ he_errors_path \in ErrorsPaths
    /\ he_outcome = NoResult

CallHandleErrors ==
    /\ he_outcome = NoResult
    /\ he_outcome' = handle_errors(he_response, he_errors_path)
    /\ UNCHANGED <<he_response, he_errors_path, loader_vars, ex_vars, od_vars,
                   gp_vars>>

NextHandleErrors == CallHandleErrors

SpecHandleErrors == InitHandleErrors /\ [][NextHandleErrors]_vars

(***************************************************************************)
(* The request executors alone, on every HTTP answer and every caller's    *)
(* headers within the bounds.                                              *)
(***************************************************************************)
ExecutorStatusCodes == {200, 201, 400, 500}

\* Entries of the errors list of an answer: with or without message and
\* extensions, the extensions a mapping or a string.
ExecutorErrorRecords ==
    {Dict([message |-> Str("m1"),
           extensions |-> Dict([code |-> Str("X")])]),
     Dict([message |-> Str("m2"), extensions |-> Str("ext")]),
     Dict([message |-> Str("m1")]),
     Dict([extensions |-> Str("ext")])}

ExecutorBodies ==
    {EmptyDict}
    \cup Bodies({None, Nest(<<"productCreate", "product", "id">>, Str("id1"))},
                {List(e) : e \in SeqsUpTo(ExecutorErrorRecords, MaxErrors)})

ExecutorHeaders ==
    {EmptyDict,
     Dict([k \in {"Authorization"} |-> Str("Bearer tok1")]),
     Dict([k \in {"Content-Type"} |-> Str("application/json")]),
     Dict([k \in {"Authorization", "Content-Type"} |->
              IF k = "Authorization" THEN Str("Bearer tok1")
              ELSE Str("application/json")])}

InitExecutor ==
    /\ headers = EmptyDict
    /\ LoaderIdle
    /\ HandleErrorsIdle
    /\ OverrideDictIdle
    /\ PayloadIdle
    /\ ex_request \in [transport : {"json", "multipart"},
                        status_code : ExecutorStatusCodes,
                        parsed_response : ExecutorBodies,
                        headers : ExecutorHeaders]
    /\ ex_outcome = NoResult

\* One call of graphql_request or graphql_multipart_request: the headers it
\* posts and what it makes of the answer.
CallExecutor ==
    /\ ex_outcome = NoResult
    /\ ex_outcome' =
          IF ex_request.transport = "multipart"
          THEN [result |-> graphql_multipart_request(ex_request.status_code,
                                                     ex_request.parsed_response),
                sent |-> base_headers(ex_request.headers)]
          ELSE [result |-> graphql_request(ex_request.status_code,
                                           ex_request.parsed_response),
                sent |-> ex_request.headers]
    /\ UNCHANGED <<ex_request, loader_vars, he_vars, od_vars, gp_vars>>

NextExecutor == CallExecutor

SpecExecutor == InitExecutor /\ [][NextExecutor]_vars

(***************************************************************************)
(* override_dict alone, on every pair of mappings over a few keys, as      *)
(* create_warehouse and its like call it: defaults with plain values and   *)
(* nested mappings, overridden by the caller's keyword arguments.          *)
(***************************************************************************)
OverrideKeys == {"name", "email", "address"}

OverrideValues ==
    {Str("Fake Warehouse"), Str("w1"),
     Dict([city |-> Str("Fake City"), country |-> Str("CH")]),
     Dict([city |-> Str("Bern")]),
     EmptyDict}

OverrideMappings ==
    {Dict(f) : f \in UNION {[K -> OverrideValues] : K \in SUBSET OverrideKeys}}

InitOverrideDict ==
    /\ headers = EmptyDict
    /\ LoaderIdle
    /\ HandleErrorsIdle
    /\ ExecutorIdle
    /\ PayloadIdle
    /\ od_a \in OverrideMappings
    /\ od_overrides \in OverrideMappings
    /\ od_outcome = NoResult
    /\ od_again = NoResult

\* override_dict(a, overrides); od_a keeps a as it was before the call.
CallOverrideDict ==
    /\ od_outcome = NoResult
    /\ od_outcome' = override_dict(od_a, od_overrides)
    /\ UNCHANGED <<od_a, od_overrides, od_again, loader_vars, he_vars, ex_vars,
                   gp_vars>>

\* override_dict(a, overrides) once more, on a and overrides as the first
\* call left them.
CallOverrideDictAgain ==
    /\ od_outcome # NoResult
    /\ od_again = NoResult
    /\ od_again' = override_dict(od_outcome.a, od_outcome.overrides)
    /\ UNCHANGED <<od_a, od_overrides, od_outcome, loader_vars, he_vars,
                   ex_vars, gp_vars>>

NextOverrideDict == CallOverrideDict \/ CallOverrideDictAgain

SpecOverrideDict == InitOverrideDict /\ [][NextOverrideDict]_vars

(***************************************************************************)
(* get_payload alone, on every product id, alt text and file path of a     *)
(* small set.                                                              *)
(***************************************************************************)
ProductIds == {Str("UHJvZHVjdDox"), Str("p2"), Str(""), Num(7)}
AltTexts == {Str(""), Str("logo"), Str("front view")}

InitPayload ==
    /\ headers = EmptyDict
    /\ LoaderIdle
    /\ HandleErrorsIdle
    /\ ExecutorIdle
    /\ OverrideDictIdle
    /\ gp_args \in [product_id : ProductIds, file_path : FilePaths,
                     alt : AltTexts]
    /\ gp_outcome = NoResult

CallGetPayload ==
    /\ gp_outcome = NoResult
    /\ gp_outcome' = get_payload(gp_args.product_id, gp_args.file_path,
                                 gp_args.alt)
    /\ UNCHANGED <<gp_args, loader_vars, he_vars, ex_vars, od_vars>>

NextPayload == CallGetPayload

SpecPayload == InitPayload /\ [][NextPayload]_vars


(***************************************************************************)
(* Properties of the methods of ETLDataLoader (specification Spec).        *)
(***************************************************************************)

\* The page of a listing response: response["data"][root].
PageIn(resp) == resp.v["data"].v[method.root]
HasNextPageIn(resp) == PageIn(resp).v["pageInfo"].v["hasNextPage"].v
EndCursorIn(resp) == PageIn(resp).v["pageInfo"].v["endCursor"]
TotalCountIn(resp) == PageIn(resp).v["totalCount"].v
Last(s) == s[Len(s)]

\* The nodes of the pages resps[1..n], page after page.
RECURSIVE NodesOfPages(_, _)
NodesOfPages(resps, n) ==
    IF n = 0 THEN <<>>
    ELSE NodesOfPages(resps, n - 1) \o NodesOf(PageIn(resps[n]).v["edges"])

\* The list found at path in resp, <<>> when there is none.
ListAt(resp, path) ==
    LET at == Subscript(resp, path) IN
    IF Len(path) > 0 /\ at.kind = "return" /\ at.value.t = "list"
    THEN at.value.v ELSE <<>>

\* resp reports an error to a caller that looks under path: a non-empty
\* top-level errors list, or an entry with a field key in the list at path.
ReportsErrors(resp, path) ==
    \/ Len(ListAt(resp, <<"errors">>)) > 0
    \/ \E i \in 1..Len(ListAt(resp, path)) : PyIn("field", ListAt(resp, path)[i])

\* C1: in every operation (each iteration of a paging loop and authenticate
\* included) handle_errors is called on each received response and returns
\* normally before any of that response's data is read or returned: whenever
\* a call reads a response or has returned, every response it received has
\* been examined and reports no error, and a further request is issued only
\* when all responses before it were examined.
C1_ExaminedBeforeRead ==
    /\ pc \in {"read", "returned"} =>
          /\ examined = Len(received)
          /\ \A i \in 1..Len(received) :
                ~ReportsErrors(received[i], method.errors_path)
    /\ pc = "request" => examined = Len(received)
    /\ pc = "handle" => examined = Len(received) - 1
    /\ Len(accumulator) > 0 => examined >= 1

\* C1 witness: a paging loop returned after two examined iterations.
C1_Witness ==
    /\ pc = "returned"
    /\ method.kind = "pager"
    /\ Len(received) = 2
    /\ examined = 2
    /\ Len(accumulator) > 0

\* The error list the server put under the field that the method's own
\* document selects.
DocumentErrorsIn(resp, m) ==
    ListAt(resp, <<"data", m.root, m.document_errors>>)

RECURSIVE FieldMessageLines(_)
FieldMessageLines(entries) ==
    IF Len(entries) = 0 THEN <<>>
    ELSE <<PyStr(Head(entries).v["field"]) \o " : "
              \o PyStr(Head(entries).v["message"])>>
         \o FieldMessageLines(Tail(entries))

\* C2: for every mutation method, a 200 answer with a non-empty
\* operation-specific error list (under the error field the method's own
\* document selects) makes the method raise the joined-message exception of
\* handle_errors (raised by the examination itself, with one line per entry
\* of that list when the body has no top-level errors); it never returns a
\* result.
C2_MutationErrorsRaise ==
    (/\ pc \in {"returned", "raised"}
     /\ method.kind = "mutation"
     /\ method.document_errors # ""
     /\ Len(received) = 1
     /\ Len(DocumentErrorsIn(received[1], method)) > 0)
    => /\ result.kind = "raise"
       /\ result.exc = "Exception"
       /\ examined = 0
       /\ Len(ListAt(received[1], <<"errors">>)) = 0 =>
             result.text =
                Join(FieldMessageLines(DocumentErrorsIn(received[1], method)),
                     "\n")

\* C3: a flat pager's first request carries cursor "", its k-th request
\* (k > 1) follows a page with hasNextPage true and carries that page's
\* endCursor, no request follows a page with hasNextPage false, and when it
\* returns after n pages (true on the first n-1, false on the n-th) it has
\* issued exactly n requests.
C3_FlatPagerRequests ==
    method.kind = "pager" =>
       /\ Len(requests) >= 1 => requests[1].after = Str("")
       /\ \A k \in 2..Len(requests) :
             /\ HasNextPageIn(received[k - 1])
             /\ requests[k].after = EndCursorIn(received[k - 1])
       /\ pc = "request" /\ Len(received) > 0 => HasNextPageIn(Last(received))
       /\ pc = "returned" =>
             /\ Len(requests) = Len(received)
             /\ ~HasNextPageIn(Last(received))
             /\ \A k \in 1..(Len(received) - 1) : HasNextPageIn(received[k])

\* C3 witness: three pages (true, true, false), three requests, the second
\* and third with different cursors.
C3_Witness ==
    /\ method.kind = "pager"
    /\ pc = "returned"
    /\ Len(requests) = 3
    /\ requests[2].after # requests[3].after
    /\ requests[2].after # Str("")

\* C4: the accumulator of a flat pager is the concatenation of the pages'
\* item lists in the order received, each page in server order: nothing is
\* dropped, duplicated or reordered, and that list is what the pager returns.
C4_FlatPagerAccumulator ==
    method.kind = "pager" =>
       /\ pc = "request" => accumulator = NodesOfPages(received, Len(received))
       /\ pc = "returned" =>
             result = Returned(List(NodesOfPages(received, Len(received))))

\* C4 witness: two pages with different non-empty item lists were returned.
C4_Witness ==
    /\ method.kind = "pager"
    /\ pc = "returned"
    /\ Len(received) = 2
    /\ Len(NodesOf(PageIn(received[1]).v["edges"])) = 2
    /\ Len(NodesOf(PageIn(received[2]).v["edges"])) = 1
    /\ Len(result.value.v) = 3

\* C5: fetch_product_categories starts at level 0 with cursor ""; after a
\* response with non-zero totalCount and hasNextPage false the next request
\* carries level + 1 and cursor ""; after one with non-zero totalCount and
\* hasNextPage true it carries the same level and that response's
\* endCursor.  Levels are requested in the order 0, 1, 2, ...
C5_CategoryLevels ==
    method.kind = "categories" =>
       /\ Len(requests) >= 1 => requests[1] = [level |-> 0, after |-> Str("")]
       /\ \A k \in 1..(Len(requests) - 1) :
             /\ TotalCountIn(received[k]) # 0
             /\ IF HasNextPageIn(received[k])
                THEN requests[k + 1] = [level |-> requests[k].level,
                                        after |-> EndCursorIn(received[k])]
                ELSE requests[k + 1] = [level |-> requests[k].level + 1,
                                        after |-> Str("")]

\* C5 witness: a second page of level 0 was requested, then level 1.
C5_Witness ==
    /\ method.kind = "categories"
    /\ Len(requests) = 3
    /\ requests[2].level = 0
    /\ requests[2].after # Str("")
    /\ requests[3] = [level |-> 1, after |-> Str("")]

\* C6: when fetch_product_categories returns after probing a newly entered
\* level L (cursor "") that reports totalCount 0, its result is the
\* concatenation of the items of all pages of levels 0..L-1 in request
\* order, and it has issued one request per such page plus the one probe.
C6_CategoryResult ==
    (/\ method.kind = "categories"
     /\ pc = "returned"
     /\ Last(requests).after = Str(""))
    => /\ result = Returned(List(NodesOfPages(received, Len(received) - 1)))
       /\ Len(requests) = Len(received)
       /\ Len(requests) =
             Cardinality({k \in 1..Len(received) :
                             TotalCountIn(received[k]) # 0}) + 1
       /\ Last(requests).level =
             Cardinality({k \in 1..Len(received) :
                             /\ TotalCountIn(received[k]) # 0
                             /\ ~HasNextPageIn(received[k])})

\* C6 witness: level 0 had two pages, level 1 was probed once and was empty.
C6_Witness ==
    /\ method.kind = "categories"
    /\ pc = "returned"
    /\ Len(requests) = 3
    /\ Last(requests) = [level |-> 1, after |-> Str("")]
    /\ Len(result.value.v) = 3

\* C7 as stated: the loop of fetch_product_categories stops only on the
\* first response of a newly entered level (cursor "") whose totalCount is
\* zero.
C7_StopsOnlyAtNewLevel ==
    (method.kind = "categories" /\ pc = "returned")
    => /\ Last(requests).after = Str("")
       /\ TotalCountIn(Last(received)) = 0

\* C7 (amended): level advancement happens only after a page with
\* hasNextPage false, and termination is governed by totalCount, not by page
\* emptiness: the loop stops exactly on a response whose totalCount is zero,
\* whichever cursor its request carried, and a response with non-zero
\* totalCount, empty item list or not, is always followed by a request.
C7_StopsOnZeroTotalCount ==
    method.kind = "categories" =>
       /\ pc = "returned" =>
             /\ TotalCountIn(Last(received)) = 0
             /\ \A k \in 1..(Len(received) - 1) : TotalCountIn(received[k]) # 0
       /\ pc = "request" =>
             \A k \in 1..Len(received) : TotalCountIn(received[k]) # 0
       /\ \A k \in 1..(Len(requests) - 1) :
             requests[k + 1].level # requests[k].level
                => ~HasNextPageIn(received[k])

\* C7 witness: the loop went on after a page with non-zero totalCount and no
\* items, and stopped at a zero totalCount.
C7_Witness ==
    /\ method.kind = "categories"
    /\ pc = "returned"
    /\ \E k \in 1..(Len(received) - 1) :
          /\ TotalCountIn(received[k]) # 0
          /\ Len(PageIn(received[k]).v["edges"].v) = 0

(***************************************************************************)
(* Properties of handle_errors (specification SpecHandleErrors).           *)
(***************************************************************************)

\* The entries of the list the error path resolves to in the response
\* under examination, <<>> when the path is not given, absent or empty.
PathEntries == ListAt(he_response, he_errors_path)
\* The entries of its top-level errors list, <<>> when it has none.
TopEntries == ListAt(he_response, <<"errors">>)
Examined == he_outcome # NoResult

RECURSIVE MessageLines(_)
MessageLines(entries) ==
    IF Len(entries) = 0 THEN <<>>
    ELSE <<Head(entries).v["message"].v>> \o MessageLines(Tail(entries))

\* The text with one line per given line, in order, separated by newlines.
RECURSIVE TextOf(_)
TextOf(lines) ==
    IF Len(lines) = 0 THEN ""
    ELSE IF Len(lines) = 1 THEN Head(lines)
    ELSE Head(lines) \o ("\n" \o TextOf(Tail(lines)))

\* C8: when the error path resolves to a non-empty list whose entries all
\* carry field and message, handle_errors raises an exception whose text has
\* exactly one line "<field> : <message>" per entry, newline-joined, in the
\* order of the list.
C8_PathErrorsText ==
    (/\ Examined
     /\ Len(PathEntries) > 0
     /\ \A i \in 1..Len(PathEntries) :
           PyIn("field", PathEntries[i]) /\ PyIn("message", PathEntries[i]))
    => he_outcome = Raised("Exception", TextOf(FieldMessageLines(PathEntries)))

\* C8 witness: two different entries, one with a null field, were reported
\* although the response also has top-level errors.
C8_Witness ==
    /\ Examined
    /\ Len(PathEntries) = 2
    /\ \A i \in 1..2 :
          PyIn("field", PathEntries[i]) /\ PyIn("message", PathEntries[i])
    /\ PathEntries[1].v["message"] # PathEntries[2].v["message"]
    /\ PathEntries[1].v["field"] = None
    /\ Len(TopEntries) > 0
    /\ he_outcome.kind = "raise"

\* C9 as stated: whenever the full error path resolves to a non-empty
\* sequence, handle_errors fails with an exception, whatever keys the
\* entries carry and whether or not a top-level errors list is present.
C9_NonEmptyPathRaises ==
    (Examined /\ Len(PathEntries) > 0) => he_outcome.kind = "raise"

\* C9 (amended): whenever the full error path resolves to a non-empty
\* sequence of which at least one entry carries a field key, handle_errors
\* fails with an exception, whatever other keys the entries carry and
\* whether or not a top-level errors list is present; when no entry carries
\* a field key it fails exactly when the top-level errors list is non-empty.
C9_PathWithFieldRaises ==
    (Examined /\ Len(PathEntries) > 0)
    => IF \E i \in 1..Len(PathEntries) : PyIn("field", PathEntries[i])
       THEN he_outcome.kind = "raise"
       ELSE he_outcome.kind = "raise" <=> Len(TopEntries) > 0

\* C9 witness: an entry with a field key but no message, next to one without
\* a field key, no top-level errors: the call fails.
C9_Witness ==
    /\ Examined
    /\ Len(PathEntries) = 2
    /\ \E i \in 1..2 :
          PyIn("field", PathEntries[i]) /\ ~PyIn("message", PathEntries[i])
    /\ \E i \in 1..2 : ~PyIn("field", PathEntries[i])
    /\ Len(TopEntries) = 0
    /\ he_outcome.kind = "raise"

\* C10: when the error path is not given, absent or empty and the top-level
\* errors list is non-empty, handle_errors raises an exception whose text
\* has one line per top-level entry's message, in the order of the list.
C10_TopLevelErrorsText ==
    (Examined /\ Len(PathEntries) = 0 /\ Len(TopEntries) > 0)
    => he_outcome = Raised("Exception", TextOf(MessageLines(TopEntries)))

\* C10 witness: a path that resolves to an empty list, two top-level entries
\* with different messages.
C10_Witness ==
    /\ Examined
    /\ Len(he_errors_path) > 0
    /\ Subscript(he_response, he_errors_path) = Returned(List(<<>>))
    /\ Len(TopEntries) = 2
    /\ TopEntries[1].v["message"] # TopEntries[2].v["message"]
    /\ he_outcome.kind = "raise"

\* C11: for every response in which the error path does not resolve to a
\* non-empty list and that has no non-empty top-level errors list,
\* handle_errors returns without raising, and it leaves the response as it
\* was.
C11_QuietReturn ==
    /\ []((Examined /\ Len(PathEntries) = 0 /\ Len(TopEntries) = 0)
              => he_outcome = Returned(None))
    /\ [][he_response' = he_response]_vars

\* C11 witness: a path that is abandoned half-way and a top-level errors key
\* holding an empty list.
C11_Witness ==
    /\ Examined
    /\ Len(he_errors_path) = 3
    /\ Subscript(he_response, he_errors_path).kind = "raise"
    /\ Subscript(he_response, <<"errors">>) = Returned(List(<<>>))
    /\ he_outcome = Returned(None)

\* C12: no error is swallowed or retried.  Once a response makes the
\* request executor or handle_errors raise, the call ends with that
\* exception and issues no further request (a pager that fails on page k
\* has issued exactly k requests), and it returns no partial accumulator or
\* result.
C12_ErrorsEndTheCall ==
    /\ \A i \in 1..Len(received) :
          handle_errors(received[i], method.errors_path).kind = "raise"
          => /\ i = Len(received)
             /\ pc \in {"handle", "raised"}
             /\ pc = "raised"
                   => /\ result = handle_errors(received[i], method.errors_path)
                      /\ Len(requests) = i
    /\ Len(requests) # Len(received)
          => /\ pc = "raised"
             /\ result.kind = "raise"
             /\ Len(requests) = Len(received) + 1
    /\ pc = "raised" => result.kind = "raise" /\ result.value = None
    /\ pc = "returned" => result.kind = "return"

\* C12 witness: a pager whose second page reports an error after the first
\* page had put nodes into the accumulator.
C12_Witness ==
    /\ method.kind \in {"pager", "categories"}
    /\ pc = "raised"
    /\ Len(requests) = 2
    /\ Len(received) = 2
    /\ Len(accumulator) > 0
    /\ result.exc = "Exception"
    /\ result.value = None

(***************************************************************************)
(* Properties of the request executors (specification SpecExecutor).       *)
(***************************************************************************)
Executed == ex_outcome # NoResult
\* The top-level errors list of the answer, <<>> when it has none.
AnswerErrors == ListAt(ex_request.parsed_response, <<"errors">>)

\* C13: graphql_request and graphql_multipart_request return a value if and
\* only if the HTTP status is 200, and the value returned is the
\* deserialized body unchanged, any top-level errors list included; on any
\* other status they never return a value.
C13_ReturnsBodyIffSuccess ==
    Executed
    => /\ ex_outcome.result.kind = "return" <=> ex_request.status_code = 200
       /\ ex_outcome.result.kind \in {"return", "raise"}
       /\ ex_request.status_code = 200
             => ex_outcome.result.value = ex_request.parsed_response
       /\ ex_request.status_code # 200 => ex_outcome.result.value = None

\* C13 witness: a multipart answer with status 200 and two top-level errors
\* was returned as it is.
C13_Witness ==
    /\ Executed
    /\ ex_request.transport = "multipart"
    /\ ex_request.status_code = 200
    /\ Len(AnswerErrors) = 2
    /\ ex_outcome.result.kind = "return"
    /\ Len(ListAt(ex_outcome.result.value, <<"errors">>)) = 2

\* C14: on a status other than 200 the executor fails with a transport
\* error built from the first top-level error entry only (its message and
\* its extensions) when the body has a non-empty errors list whose first
\* entry has both keys; when the body has no errors key, an empty errors
\* list, or a first entry without message or extensions, it fails with a
\* lookup error (KeyError or IndexError) instead.
C14_TransportError ==
    (Executed /\ ex_request.status_code # 200)
    => IF /\ Len(AnswerErrors) > 0
          /\ PyIn("message", AnswerErrors[1])
          /\ PyIn("extensions", AnswerErrors[1])
       THEN ex_outcome.result =
               Raised("Exception",
                      PyStr(AnswerErrors[1].v["message"]) \o "\n extensions: "
                         \o PyStr(AnswerErrors[1].v["extensions"]))
       ELSE /\ ex_outcome.result.kind = "raise"
            /\ ex_outcome.result.exc \in {"KeyError", "IndexError"}

\* C14 witness: status 500, two entries with different messages and
\* extensions; the text names the first entry's only.
C14_Witness ==
    /\ Executed
    /\ ex_request.status_code = 500
    /\ Len(AnswerErrors) = 2
    /\ AnswerErrors[1] = Dict([message |-> Str("m1"),
                               extensions |-> Dict([code |-> Str("X")])])
    /\ AnswerErrors[2] = Dict([message |-> Str("m2"),
                               extensions |-> Str("ext")])
    /\ ex_outcome.result.text = "m1\n extensions: {'code': 'X'}"

\* C19: the headers graphql_multipart_request sends are the computed
\* Content-Type boundary header shallow-overridden by the caller's headers:
\* every caller key is sent with the caller's value, a caller-supplied
\* Content-Type replaces the computed one, and nothing else is sent.
C19_MultipartHeaders ==
    (Executed /\ ex_request.transport = "multipart")
    => LET caller == ex_request.headers.v
           sent == ex_outcome.sent.v
       IN  /\ DOMAIN sent = DOMAIN caller \cup {"Content-Type"}
           /\ \A k \in DOMAIN caller : sent[k] = caller[k]
           /\ "Content-Type" \notin DOMAIN caller
                 => sent["Content-Type"] = ContentType

\* C19 witness: the caller gives Authorization and its own Content-Type.
C19_Witness ==
    /\ Executed
    /\ ex_request.transport = "multipart"
    /\ DOMAIN ex_request.headers.v = {"Authorization", "Content-Type"}
    /\ ex_outcome.sent.v["Content-Type"] = Str("application/json")
    /\ ex_outcome.sent.v["Content-Type"] # ContentType
    /\ ex_outcome.sent.v["Authorization"] = Str("Bearer tok1")

(***************************************************************************)
(* Properties of override_dict (specification SpecOverrideDict).           *)
(***************************************************************************)
Overridden == od_outcome # NoResult
\* The keys a warning was printed for.
Warned == {od_outcome.warnings[i] : i \in 1..Len(od_outcome.warnings)}

\* C15: after override_dict(baseline, overrides) the baseline's key set is
\* the union of both key sets, every key of overrides maps to the override
\* value, and every key only in the baseline keeps its baseline value.
C15_ShallowOverride ==
    Overridden
    => LET after == od_outcome.a.v IN
       /\ DOMAIN after = DOMAIN od_a.v \cup DOMAIN od_overrides.v
       /\ \A k \in DOMAIN od_overrides.v : after[k] = od_overrides.v[k]
       /\ \A k \in DOMAIN od_a.v \ DOMAIN od_overrides.v : after[k] = od_a.v[k]

\* C15 witness: one key only in the baseline, one only in the overrides and
\* one in both with different values.
C15_Witness ==
    /\ Overridden
    /\ DOMAIN od_a.v = {"name", "email"}
    /\ DOMAIN od_overrides.v = {"email", "address"}
    /\ od_a.v["email"] # od_overrides.v["email"]
    /\ od_outcome.a.v["email"] = od_overrides.v["email"]
    /\ od_outcome.a.v["name"] = od_a.v["name"]

\* C16: a warning is emitted for a key exactly when the baseline held a
\* nested mapping at that key before the assignment, once per key; and for
\* such a key K the baseline afterwards holds exactly overrides[K], no
\* sub-key of the old nested mapping surviving unless the override value
\* has it.
C16_NestedReplacedWithWarning ==
    Overridden
    => /\ \A k \in OverrideKeys :
             k \in Warned <=> /\ k \in DOMAIN od_overrides.v
                              /\ k \in DOMAIN od_a.v
                              /\ od_a.v[k].t = "dict"
       /\ Len(od_outcome.warnings) = Cardinality(Warned)
       /\ \A k \in Warned : od_outcome.a.v[k] = od_overrides.v[k]

\* C16 witness: the default address, a mapping with city and country, is
\* overridden by a mapping with a city only, and the name by a string: one
\* warning, and the country is gone.
C16_Witness ==
    /\ Overridden
    /\ DOMAIN od_overrides.v = {"name", "address"}
    /\ DOMAIN od_a.v = OverrideKeys
    /\ od_a.v["name"].t = "str"
    /\ od_a.v["address"] = Dict([city |-> Str("Fake City"), country |-> Str("CH")])
    /\ od_overrides.v["address"] = Dict([city |-> Str("Bern")])
    /\ Warned = {"address"}
    /\ DOMAIN od_outcome.a.v["address"].v = {"city"}

(***************************************************************************)
(* Properties of the instance headers (specification Spec).                *)
(***************************************************************************)
\* The token in the answer to authenticate's request.
TokenIn(resp) == Subscript(resp, <<"data", "tokenCreate", "token">>)
\* The headers with nothing but the bearer token.
BearerOnly(token) == Dict([k \in {"Authorization"} |-> Str("Bearer " \o token)])

\* C17: after construction with a non-empty auth_token (and not both email
\* and password) headers["Authorization"] is "Bearer " followed by that
\* token and no request was sent; after construction or authenticate with
\* email and password where tokenCreate returns a non-empty token,
\* headers["Authorization"] is "Bearer " followed by the returned token,
\* after exactly one request.
C17_BearerHeader ==
    /\ (/\ init_args.given
        /\ pc = "idle"
        /\ Truthy(init_args.auth_token)
        /\ ~(Truthy(init_args.email) /\ Truthy(init_args.password)))
       => /\ headers = BearerOnly(init_args.auth_token.v)
          /\ requests = <<>>
          /\ sent_headers = None
    /\ (/\ method = authenticate
        /\ pc \in {"returned", "raised"}
        /\ Len(received) = 1
        /\ ~ReportsErrors(received[1], <<>>)
        /\ TokenIn(received[1]).kind = "return"
        /\ TokenIn(received[1]).value.t = "str"
        /\ TokenIn(received[1]).value.v # "")
       => /\ pc = "returned"
          /\ headers.v["Authorization"]
                = Str("Bearer " \o TokenIn(received[1]).value.v)
          /\ Len(requests) = 1
    /\ (method = authenticate /\ pc = "returned")
       => /\ Len(requests) = 1
          /\ Len(received) = 1
          /\ headers = BearerOnly(TokenIn(received[1]).value.v)

\* C17 witness: the constructor was given email and password and no token,
\* its one request was answered with a token, and the header carries it.
C17_Witness ==
    /\ init_args.given
    /\ init_args.auth_token = None
    /\ Truthy(init_args.email) /\ Truthy(init_args.password)
    /\ method = authenticate
    /\ pc = "returned"
    /\ Len(requests) = 1
    /\ TokenIn(received[1]).value = Str("tok1")
    /\ headers.v["Authorization"] = Str("Bearer tok1")

\* C18: the instance headers are changed only by construction,
\* set_auth_header and authenticate; every create, update, delete and fetch
\* call leaves them as they are, and a multipart upload through
\* create_product_media puts no Content-Type entry into them.
C18_HeadersFrame ==
    /\ []("Content-Type" \notin DOMAIN headers.v)
    /\ [][headers' # headers
            => \/ pc = "new"
               \/ method' = set_auth_header_method
               \/ method = authenticate /\ pc = "read"]_vars

\* C18 witness: an upload with a file was sent with the boundary header and
\* the bearer token, and the instance headers still hold the token only.
C18_Witness ==
    /\ method = create_product_media(TRUE)
    /\ pc = "returned"
    /\ headers = BearerOnly("tok1")
    /\ sent_headers.t = "dict"
    /\ DOMAIN sent_headers.v = {"Authorization", "Content-Type"}
    /\ sent_headers.v["Content-Type"] = ContentType
    /\ sent_headers.v["Authorization"] = Str("Bearer tok1")

(***************************************************************************)
(* Properties of get_payload (specification SpecPayload).                  *)
(***************************************************************************)
\* The JSON text of a product id or alt text.
JsonText(x) == IF x.t = "str" THEN "\"" \o x.v \o "\"" ELSE ToString(x.v)

\* C20: for every product id and alt text get_payload yields the map
\* {"0": ["variables.image"]}, an operations document whose variables are
\* product = the given id, alt = the given alt text and image = "0", and a
\* file part stored under key "0": the file-part key, the map key and the
\* image placeholder agree.
C20_PayloadParts ==
    gp_outcome.kind = "return"
    => LET payload == gp_outcome.value.v IN
       /\ DOMAIN payload = {"operations", "map", "0"}
       /\ payload["map"] = Str("{\"0\": [\"variables.image\"]}")
       /\ payload["operations"] =
             Str("{\"query\": \"mutation ProductMediaCreate\", "
                 \o "\"variables\": {\"product\": "
                 \o JsonText(gp_args.product_id)
                 \o ", \"image\": \"0\", \"alt\": "
                 \o JsonText(gp_args.alt) \o "}}")
       /\ payload["0"].t = "list"
       /\ payload["0"].v[1] = Str(gp_args.file_path[Len(gp_args.file_path)])

\* C20 witness: a payload for a file in a directory, with an alt text.
C20_Witness ==
    /\ gp_outcome.kind = "return"
    /\ gp_args = [product_id |-> Str("UHJvZHVjdDox"),
                  file_path |-> <<"img", "a.png">>, alt |-> Str("logo")]
    /\ gp_outcome.value.v["operations"] =
          Str("{\"query\": \"mutation ProductMediaCreate\", \"variables\": "
              \o "{\"product\": \"UHJvZHVjdDox\", \"image\": \"0\", "
              \o "\"alt\": \"logo\"}}")
    /\ gp_outcome.value.v["0"].v[1] = Str("a.png")
    /\ gp_outcome.value.v["0"].v[3] = Str("image/png")

(***************************************************************************)
(* Further properties of handle_errors (specification SpecHandleErrors).   *)
(***************************************************************************)
\* The entries of the list at the path that carry a field key.
FieldEntries == SelectSeq(PathEntries, LAMBDA e : PyIn("field", e))

\* C22: the top-level errors list is consulted only if no path-specific
\* line was produced: when the error path yields at least one line and the
\* top-level errors list is non-empty as well, the raised text has the
\* path-specific lines only and none of the top-level messages.
C22_PathLinesOnly ==
    (/\ Examined
     /\ Len(FieldEntries) > 0
     /\ \A i \in 1..Len(FieldEntries) : PyIn("message", FieldEntries[i])
     /\ Len(TopEntries) > 0)
    => he_outcome = Raised("Exception", TextOf(FieldMessageLines(FieldEntries)))

\* C22 witness: one path entry with field and message, and two top-level
\* entries one of which has another message; the text is the path line.
C22_Witness ==
    /\ Examined
    /\ Len(PathEntries) = 1
    /\ PathEntries[1] = Dict([field |-> Str("name"), message |-> Str("m1")])
    /\ Len(TopEntries) = 2
    /\ TopEntries[1] = Dict([message |-> Str("m2")])
    /\ he_outcome.text = "name : m1"

\* Some key along the walk of the path is absent or maps to a falsy value.
WalkAbandoned ==
    \E n \in 1..Len(he_errors_path) :
       LET at == Subscript(he_response, SubSeq(he_errors_path, 1, n)) IN
       at.kind = "raise" \/ ~Truthy(at.value)

\* C23: for every response and every error path in which some key along
\* the walk is absent or maps to a falsy value (data being null and an
\* empty error list included) the walk raises nothing and handle_errors
\* has the outcome it has with no path: the top-level messages are raised
\* when there are any, else it returns.
C23_AbandonedWalkIsNoPath ==
    (Examined /\ WalkAbandoned)
    => /\ he_outcome = handle_errors(he_response, <<>>)
       /\ he_outcome = IF Len(TopEntries) > 0
                       THEN Raised("Exception", TextOf(MessageLines(TopEntries)))
                       ELSE Returned(None)

\* C23 witness: data is null, the walk stops at its first key, and the two
\* top-level messages are raised.
C23_Witness ==
    /\ Examined
    /\ Len(he_errors_path) = 3
    /\ Subscript(he_response, <<"data">>) = Returned(None)
    /\ Len(TopEntries) = 2
    /\ he_outcome.kind = "raise"
    /\ he_outcome.text = TextOf(MessageLines(TopEntries))

\* C25: override_dict changes only its first argument: it returns nothing,
\* it leaves the overrides mapping as it was, and applying the same
\* overrides a second time leaves the baseline equal to its state after
\* the first application.
C25_InPlaceIdempotent ==
    /\ Overridden
          => /\ od_outcome.value = None
             /\ od_outcome.overrides = od_overrides
    /\ od_again # NoResult
          => /\ od_again.value = None
             /\ od_again.overrides = od_overrides
             /\ od_again.a = od_outcome.a

\* C25 witness: the second application, after a first one that did change
\* the baseline by replacing a value and adding a key.
C25_Witness ==
    /\ od_again # NoResult
    /\ od_outcome.a # od_a
    /\ \E k \in DOMAIN od_a.v \cap DOMAIN od_overrides.v :
          od_a.v[k] # od_overrides.v[k]
    /\ DOMAIN od_overrides.v \ DOMAIN od_a.v # {}
    /\ od_again.a = od_outcome.a

(***************************************************************************)
(* Further properties of the methods of ETLDataLoader (specification       *)
(* Spec).                                                                  *)
(***************************************************************************)

\* C21: when the file path given for an upload does not exist, get_payload
\* fails with a file-not-found error, and create_product_media with that
\* path fails with the same error before any HTTP request is issued.
C21_MissingFileNoRequest ==
    (/\ method = create_product_media(TRUE)
     /\ variables.file_path \notin ExistingFiles)
    => /\ pc = "raised"
       /\ result.exc = "FileNotFoundError"
       /\ result = get_payload(Str("UHJvZHVjdDox"), variables.file_path, Str(""))
       /\ requests = <<>>
       /\ received = <<>>
       /\ sent_headers = None

\* C21 witness: an upload of a file that does not exist has failed.
C21_Witness ==
    /\ method = create_product_media(TRUE)
    /\ variables.file_path = <<"missing.png">>
    /\ pc = "raised"
    /\ result.exc = "FileNotFoundError"
    /\ requests = <<>>

\* C26: when authenticate fails, because handle_errors raises on top-level
\* errors or because tokenCreate returns a null or empty token
\* (set_auth_header raises "Authentication failed"), the exception
\* propagates and the headers are left exactly as before the call: an
\* Authorization header set earlier is neither removed nor replaced, and
\* none is added.
C26_FailedAuthenticateKeepsHeaders ==
    /\ []((method = authenticate /\ pc = "raised" /\ Len(received) = 1)
             => /\ result.kind = "raise"
                /\ Len(ListAt(received[1], <<"errors">>)) > 0
                      => result = Raised("Exception",
                            TextOf(MessageLines(ListAt(received[1], <<"errors">>))))
                /\ (/\ Len(ListAt(received[1], <<"errors">>)) = 0
                    /\ TokenIn(received[1]).kind = "return"
                    /\ ~Truthy(TokenIn(received[1]).value))
                      => result = Raised("Exception",
                            "Authentication failed - check details are correct"))
    /\ []((init_args.given /\ method = authenticate /\ pc = "raised")
             => headers = EmptyDict)
    /\ [][method' = authenticate
            => \/ headers' = headers
               \/ pc = "read" /\ pc' = "returned"]_vars

\* C26 witness: a loader that holds a token authenticates again, the answer
\* has an empty token, the call fails and the header still has the token.
C26_Witness ==
    /\ method = authenticate
    /\ pc = "raised"
    /\ Len(received) = 1
    /\ TokenIn(received[1]) = Returned(Str(""))
    /\ result.text = "Authentication failed - check details are correct"
    /\ headers = BearerOnly("tok1")

\* C27: constructor precedence.  When email and password are both
\* non-empty the constructor authenticates with them (one tokenCreate
\* request) and ignores any auth_token argument; when they are not both
\* given and auth_token is non-empty, the token is injected with no
\* request; when neither is given, no request is sent, no exception is
\* raised and headers stays empty, so that later operations are sent
\* without an Authorization header.
C27_ConstructorPrecedence ==
    /\ init_args.given
       => IF Truthy(init_args.email) /\ Truthy(init_args.password)
          THEN /\ method = authenticate
               /\ pc \in {"request", "handle", "read", "returned", "raised"}
               /\ Len(requests) = IF pc = "request" THEN 0 ELSE 1
               /\ headers = IF pc = "returned"
                            THEN BearerOnly(TokenIn(received[1]).value.v)
                            ELSE EmptyDict
          ELSE /\ pc = "idle"
               /\ method = NoMethod
               /\ result = NoResult
               /\ requests = <<>>
               /\ sent_headers = None
               /\ headers = IF Truthy(init_args.auth_token)
                            THEN BearerOnly(init_args.auth_token.v)
                            ELSE EmptyDict
    /\ (sent_headers # None /\ "Authorization" \notin DOMAIN headers.v)
       => "Authorization" \notin DOMAIN sent_headers.v

\* C27 witness: email, password and a token were all given; the one
\* tokenCreate request failed, and the token given was not put into the
\* headers.
C27_Witness ==
    /\ init_args.given
    /\ Truthy(init_args.email) /\ Truthy(init_args.password)
    /\ init_args.auth_token = Str("tok0")
    /\ method = authenticate
    /\ pc = "raised"
    /\ Len(requests) = 1
    /\ headers = EmptyDict

(***************************************************************************)
(* Termination of the paging methods (specification SpecPagers).           *)
(***************************************************************************)
\* resp carries the page of the running method, and that page tells the
\* loop to go on: hasNextPage for a flat pager, a non-zero totalCount for
\* fetch_product_categories.
HasPage(resp) ==
    /\ Subscript(resp, method.result_path).kind = "return"
    /\ Subscript(resp, method.result_path).value.t = "dict"
GoesOn(resp) ==
    IF method.kind = "categories"
    THEN Truthy(PageIn(resp).v["totalCount"])
    ELSE Truthy(PageIn(resp).v["pageInfo"].v["hasNextPage"])
Paging == method.kind \in {"pager", "categories"}

\* C24: fetch_product_categories eventually returns whenever the server
\* reports a zero totalCount, and a flat pager whenever a response reports
\* hasNextPage false; they return on such a response only, every earlier
\* response having told the loop to go on, and after a response that tells
\* it to go on the next statement is always another request, whatever the
\* level, the number of pages or the cursor: nothing but the server's
\* answer ends the loop.
C24_PagersTerminate ==
    /\ (Paging /\ pc = "handle" /\ HasPage(response)
           /\ ~ReportsErrors(response, <<>>) /\ ~GoesOn(response))
          ~> (pc = "returned")
    /\ []((Paging /\ pc = "returned")
             => /\ Len(received) > 0
                /\ ~GoesOn(Last(received))
                /\ \A i \in 1..(Len(received) - 1) : GoesOn(received[i]))
    /\ [][(Paging /\ pc = "read" /\ HasPage(response) /\ GoesOn(response))
            => pc' = "request"]_vars

\* C24 witness: fetch_product_categories has returned on its third
\* response, the first of level 1, after two pages of level 0.
C24_Witness ==
    /\ method = fetch_product_categories
    /\ pc = "returned"
    /\ Len(requests) = 3
    /\ requests[2].level = 0
    /\ requests[3] = [level |-> 1, after |-> Str("")]
    /\ TotalCountIn(received[3]) = 0

====
